---- MODULE Spec2Model ----
(***************************************************************************)
(* Model of the esports match notifier.                                    *)
(*                                                                         *)
(*   src/index.js                   the HTML-scraping variant: the store   *)
(*                                  db = {subscriptions, seenMatches}, the *)
(*                                  poll cycles (cron and GET /poll-now)   *)
(*                                  and the subscribe/unsubscribe routes.  *)
(*   src/discord_esports_bot_api.js the HLTV-client variant: its flat      *)
(*                                  subscription list (variable apiDb).    *)
(*                                                                         *)
(* JavaScript runs every handler to completion up to its next await.  A    *)
(* poll cycle is therefore a sequence of atomic segments separated by the  *)
(* two awaits of notifyNewMatchesForTeam (the upstream fetch and each      *)
(* webhook POST).  The synchronous part of a segment is taken one loop     *)
(* iteration at a time (pc = "loop" for the loop over the candidates,      *)
(* pc = "deliver" for the loop over the webhooks); while a cycle is inside *)
(* such a segment no other handler may run (see Busy).                     *)
(***************************************************************************)
EXTENDS Integers, Sequences, FiniteSets, TLC

VARIABLES
  subscriptions,  \* db.subscriptions: team name -> webhooks, in key order
  seenMatches,    \* db.seenMatches: team key -> list of match ids
  file,           \* esports_subscriptions.json as last written
  cyc,            \* the in-flight poll cycle of each trigger
  events,         \* requests, triggers and restarts so far
  restarts,       \* process restarts so far
  attempted,      \* history: <<team key, match id, webhook>> POSTs started
  dup,            \* history: the triples POSTed more than once
  failed,         \* history: the triples whose POST rejected
  committed,      \* history: <<team key, match id>> pushed and saved
  owed,           \* history: at each commit, the webhooks then subscribed
                  \*          under any name of the committed team key
  removed,        \* history: the stored <<team, webhook>> that an answered
                  \*          unsubscribe removed, not subscribed again since
  dbShape,        \* "maps": db has its two maps; "noMaps": db is a parsed
                  \*          value without them
  typeErrors,     \* history: the handlers that threw on a db without maps
  ext,            \* extractMatchesFromHtml: a context text and its result
  mat,            \* getMatchesForTeam: a candidate, a team and the verdict
  apiDb,          \* discord_esports_bot_api.js: db (subscriptions is a list)
  apiFile,        \* discord_esports_bot_api.js: the file as last written
  apiReqs         \* discord_esports_bot_api.js: requests served so far

indexVars == <<subscriptions, seenMatches, file, cyc, events, restarts,
               attempted, dup, failed, committed, owed, removed, dbShape,
               typeErrors>>
apiVars == <<apiDb, apiFile, apiReqs>>
fnVars == <<ext, mat>>
vars == <<subscriptions, seenMatches, file, cyc, events, restarts,
          attempted, dup, failed, committed, owed, removed, dbShape,
          typeErrors, apiDb, apiFile, apiReqs, ext, mat>>

----------------------------------------------------------------------------
(* Bounds of the exploration. *)

MaxEvents == 3
MaxRestarts == 1
MaxApiReqs == 3
MaxWords == 2

----------------------------------------------------------------------------
(* Strings are sequences of one-character strings, so that trimming,       *)
(* lower-casing and substring search are computed, not assumed.            *)

\* Array.prototype.includes
Includes(s, x) == \E i \in 1..Len(s) : s[i] = x

\* String.prototype.includes: t occurs in s as a contiguous substring
StrIncludes(s, t) ==
  \E i \in 0..(Len(s) - Len(t)) : \A j \in 1..Len(t) : s[i + j] = t[j]

LowerChar(ch) ==
  CASE ch = "F" -> "f"
    [] ch = "U" -> "u"
    [] ch = "N" -> "n"
    [] ch = "A" -> "a"
    [] ch = "X" -> "x"
    [] ch = "V" -> "v"
    [] ch = "S" -> "s"
    [] ch = "T" -> "t"
    [] ch = "B" -> "b"
    [] OTHER -> ch

ToLowerCase(s) == [i \in 1..Len(s) |-> LowerChar(s[i])]

RECURSIVE TrimStart(_)
TrimStart(s) ==
  IF s # <<>> /\ Head(s) = " " THEN TrimStart(Tail(s)) ELSE s

RECURSIVE TrimEnd(_)
TrimEnd(s) ==
  IF s # <<>> /\ s[Len(s)] = " " THEN TrimEnd(SubSeq(s, 1, Len(s) - 1)) ELSE s

Trim(s) == TrimEnd(TrimStart(s))

normalizeTeamName(name) == ToLowerCase(Trim(name))

----------------------------------------------------------------------------
(* The inputs. *)

FURIA == <<"F", "U">>
furia == <<"f", "u">>
NAVI == <<"N", "A">>

\* team names a request may carry; the empty one is rejected with 400
TeamNames == {FURIA, furia, NAVI, <<>>}

Webhooks == {"w1", "w2"}

\* What extractMatchesFromHtml returns for the documents the upstream may
\* serve: lists of candidates with pairwise different ids.
Cand1 == [id |-> "1", team1 |-> <<"F", "U", " ", "X">>, team2 |-> NAVI]
Cand2 == [id |-> "2", team1 |-> <<"f", "u">>, team2 |-> <<>>]

Docs == {<<>>, <<Cand1>>, <<Cand1, Cand2>>}

\* the triggers; one cycle of each may be in flight
Cycles == {"cron", "manual"}

----------------------------------------------------------------------------
(* extractMatchesFromHtml, the part that splits a link's context text into *)
(* team1 and team2 (index.js:44-62), and the filter of getMatchesForTeam.  *)

IsSpace(ch) == ch \in {" ", "\t", "\n"}

RECURSIVE SkipSpace(_)
SkipSpace(s) ==
  IF s # <<>> /\ IsSpace(Head(s)) THEN SkipSpace(Tail(s)) ELSE s

\* context.replace(/\s+/g, ' ')
RECURSIVE CollapseSpace(_)
CollapseSpace(s) ==
  IF s = <<>> THEN <<>>
  ELSE IF IsSpace(Head(s))
    THEN <<" ">> \o CollapseSpace(SkipSpace(Tail(s)))
    ELSE <<Head(s)>> \o CollapseSpace(Tail(s))

\* context.replace(/\s+/g, ' ').trim()
NormalizeContext(s) == Trim(CollapseSpace(s))

\* the separators of the two patterns, as they read in a text whose
\* whitespace is single spaces: \s+v(?:s|\.?)\s+ under flag i, and \s+,
\* a hyphen or an en dash, \s+
VsSeparators ==
  {<<" ", "v", "s", " ">>, <<" ", "v", ".", " ">>, <<" ", "v", " ">>}

\* the character U+2013
EnDash == "U+2013"

DashSeparators == {<<" ", "-", " ">>, <<" ", EnDash, " ">>}

\* sep reads at position i of s, and a character follows it; under flag i
\* (fold) the letters of s match in either case
SepAt(s, i, sep, fold) ==
  /\ i + Len(sep) <= Len(s)
  /\ \A k \in 1..Len(sep) :
       (IF fold THEN LowerChar(s[i + k - 1]) ELSE s[i + k - 1]) = sep[k]

NoMatch == [found |-> FALSE, m1 |-> <<>>, m2 |-> <<>>]

\* s.match(/(.+?)SEP(.+?)(?:\s|$)/) on a text s whose whitespace is single
\* spaces and that has none at its ends: the match starts at the first
\* character, the lazy first group ends before the first separator that has
\* a character before it, the lazy second group ends before the next space
RegexMatch(s, seps, fold) ==
  LET Hits == {i \in 2..Len(s) : \E sep \in seps : SepAt(s, i, sep, fold)}
  IN IF Hits = {} THEN NoMatch
     ELSE LET i == CHOOSE h \in Hits : \A g \in Hits : h <= g
              sep == CHOOSE x \in seps : SepAt(s, i, x, fold)
              q == i + Len(sep)
              Ends == {j \in q..Len(s) : j = Len(s) \/ s[j + 1] = " "}
              e == CHOOSE j \in Ends : \A g \in Ends : j <= g
          IN [found |-> TRUE, m1 |-> SubSeq(s, 1, i - 1),
              m2 |-> SubSeq(s, q, e)]

\* context.match(vsRegex)
vsRegex(s) == RegexMatch(s, VsSeparators, TRUE)

\* context.match(dashRegex)
dashRegex(s) == RegexMatch(s, DashSeparators, FALSE)

\* context.split(' ').slice(0, 6).join(' ')
FirstParts(s) ==
  LET Spaces == {i \in 1..Len(s) : s[i] = " "} IN
    IF Cardinality(Spaces) < 6 THEN s
    ELSE LET sixth == CHOOSE i \in Spaces :
                        Cardinality({j \in Spaces : j < i}) = 5
         IN SubSeq(s, 1, sixth - 1)

\* parts.slice(0, 20)
Slice20(s) == IF Len(s) <= 20 THEN s ELSE SubSeq(s, 1, 20)

\* team1 and team2 of the record found for a link whose context text is text
extractMatchesFromHtml(text) ==
  LET context == NormalizeContext(text)
      m == IF vsRegex(context).found THEN vsRegex(context)
                                     ELSE dashRegex(context)
  IN IF m.found
       THEN [team1 |-> Trim(m.m1), team2 |-> Trim(m.m2)]
       ELSE [team1 |-> Trim(Slice20(FirstParts(context))), team2 |-> <<>>]

----------------------------------------------------------------------------
(* The store of src/index.js. *)

EmptyDb == [subscriptions |-> <<>>, seenMatches |-> <<>>]

\* what the file holds: kind "db" is a serialised db, "unparseable" a text
\* JSON.parse rejects, "noMaps" a JSON value without the two maps
NoFile ==
  [exists |-> FALSE, kind |-> "db", subscriptions |-> <<>>,
   seenMatches |-> <<>>]

UnparseableFile == [NoFile EXCEPT !.exists = TRUE, !.kind = "unparseable"]

NoMapsFile == [NoFile EXCEPT !.exists = TRUE, !.kind = "noMaps"]

\* (mutant) a save that writes the subscriptions and forgets the seen sets
saveDBSubscriptionsOnly(subs, seen) ==
  [exists |-> TRUE, kind |-> "db", subscriptions |-> subs,
   seenMatches |-> <<>>]

\* saveDB: the whole of db is serialised and replaces the file's content
saveDB(subs, seen) ==
  [exists |-> TRUE, kind |-> "db", subscriptions |-> subs,
   seenMatches |-> seen]

\* the load at startup, the shape of db: JSON.parse's value replaces db
\* whatever it is; a JSON.parse that throws leaves the initial db
LoadShape(f) ==
  IF f.exists /\ f.kind = "noMaps" THEN "noMaps" ELSE "maps"

\* the load at startup, the maps of db: those of the parsed file if there is
\* one and it parses, else the empty ones (with LoadShape(f) = "noMaps" db
\* has no maps and these stand for nothing)
LoadDB(f) ==
  IF f.exists /\ f.kind = "db"
    THEN [subscriptions |-> f.subscriptions, seenMatches |-> f.seenMatches]
    ELSE EmptyDb

\* Object.keys(db.subscriptions), in insertion order
Keys(subs) == [i \in 1..Len(subs) |-> subs[i].team]

HasTeam(subs, team) == \E i \in 1..Len(subs) : subs[i].team = team

IndexOfTeam(subs, team) == CHOOSE i \in 1..Len(subs) : subs[i].team = team

\* db.subscriptions[team] || []
SubsFor(subs, team) ==
  IF HasTeam(subs, team) THEN subs[IndexOfTeam(subs, team)].hooks ELSE <<>>

\* if (!db.seenMatches[teamKey]) db.seenMatches[teamKey] = []
InitSeen(seen, key) ==
  IF key \in DOMAIN seen THEN seen ELSE seen @@ (key :> <<>>)

\* (mutant) a membership check that calls every id new
isNewAlways(seen, key, id) == TRUE

\* (mutant) indexOf used as a truth value: an id at index 0 counts as new
isNewIndexOf(seen, key, id) ==
  ~(\E i \in 2..Len(seen[key]) : seen[key][i] = id)

\* !db.seenMatches[teamKey].includes(m.id)
isNew(seen, key, id) == ~Includes(seen[key], id)

\* (mutant) the push is left out
PushSeenSkip(seen, key, id) == seen

\* (mutant) an assignment in place of the push
PushSeenOverwrite(seen, key, id) == [seen EXCEPT ![key] = <<id>>]

\* db.seenMatches[teamKey].push(m.id)
PushSeen(seen, key, id) == [seen EXCEPT ![key] = Append(@, id)]

\* the filter of getMatchesForTeam on one candidate
Matches(m, team) ==
  LET t == normalizeTeamName(team) IN
    \/ m.team1 # <<>> /\ StrIncludes(normalizeTeamName(m.team1), t)
    \/ m.team2 # <<>> /\ StrIncludes(normalizeTeamName(m.team2), t)

\* what the upstream fetch may give: a document, or a failure
FetchResults ==
  {[ok |-> TRUE, doc |-> d] : d \in Docs} \cup {[ok |-> FALSE, doc |-> <<>>]}

\* getMatchesForTeam: a fetch or parse failure is caught and gives []
getMatchesForTeam(team, fetch) ==
  LET Keep(m) == Matches(m, team) IN
    IF fetch.ok THEN SelectSeq(fetch.doc, Keep) ELSE <<>>

----------------------------------------------------------------------------
(* Poll cycles of src/index.js. *)

IdleCycle ==
  [pc |-> "idle", teams |-> <<>>, ti |-> 0, matches |-> <<>>, mi |-> 0,
   subs |-> <<>>, live |-> FALSE, wi |-> 0]

\* the callback returned (cron) or the response was sent (manual)
DoneCycle == [IdleCycle EXCEPT !.pc = "done"]

\* the handler's promise rejected and nothing handles the rejection: no
\* response is sent (a Node.js that ends the process on an unhandled
\* rejection is the step Restart)
FailedCycle == [IdleCycle EXCEPT !.pc = "failed"]

NotRunning(c) == cyc[c].pc \in {"idle", "done", "failed"}

\* a handler is inside a synchronous segment: nothing else may run
Busy == \E c \in Cycles : cyc[c].pc \in {"loop", "deliver"}

CurTeam(r) == r.teams[r.ti]
CurKey(r) == normalizeTeamName(CurTeam(r))
CurMatch(r) == r.matches[r.mi]

\* the call notifyNewMatchesForTeam(teams[i]) up to its first await
EnterTeam(r, i, seen) ==
  [cyc |-> [r EXCEPT !.pc = "fetch", !.ti = i, !.matches = <<>>, !.mi = 0,
                     !.subs = <<>>, !.live = FALSE, !.wi = 0],
   seen |-> InitSeen(seen, normalizeTeamName(r.teams[i]))]

\* the for loop over teams after team ti: the next team, or the end
NextTeam(r, seen) ==
  IF r.ti < Len(r.teams)
    THEN EnterTeam(r, r.ti + 1, seen)
    ELSE [cyc |-> DoneCycle, seen |-> seen]

\* an exception leaves notifyNewMatchesForTeam: the cron callback catches it
\* and goes on with the next team, GET /poll-now does not catch it
OnThrow(c, r, seen) ==
  IF c = "cron" THEN NextTeam(r, seen) ELSE [cyc |-> FailedCycle, seen |-> seen]

\* (mutant) the POST without its try/catch: a rejection leaves the handler
AfterPostUncaught(r, ok) ==
  IF ok THEN [r EXCEPT !.pc = "deliver"] ELSE FailedCycle

\* after the awaited POST to subs[wi] settled, whether it resolved or rejected
\* (the rejection is caught inside the loop): back in the loop over subs
AfterPost(r, ok) == [r EXCEPT !.pc = "deliver"]

Triple(r) == <<CurKey(r), CurMatch(r).id, r.subs[r.wi]>>

\* (history) every webhook stored under a team name with this key
SubscribedUnderKey(subs, key) ==
  {w \in Webhooks :
     \E i \in 1..Len(subs) :
        normalizeTeamName(subs[i].team) = key /\ Includes(subs[i].hooks, w)}

\* db after the load of file f
InitStore(f) ==
  /\ file = f
  /\ dbShape = LoadShape(f)
  /\ subscriptions = LoadDB(f).subscriptions
  /\ seenMatches = LoadDB(f).seenMatches

\* no cycle in flight, nothing delivered yet
InitCycles ==
  /\ cyc = [c \in Cycles |-> IdleCycle]
  /\ events = 0
  /\ restarts = 0
  /\ attempted = {}
  /\ dup = {}
  /\ failed = {}
  /\ committed = {}
  /\ owed = {}
  /\ removed = {}
  /\ typeErrors = {}

InitApi ==
  /\ apiDb = [subscriptions |-> <<>>, seenMatches |-> <<>>]
  /\ apiFile = NoFile
  /\ apiReqs = 0

NoCall == [stage |-> "idle"]

\* the first start: there is no file
Init ==
  /\ InitStore(NoFile)
  /\ InitCycles
  /\ InitApi
  /\ ext = NoCall
  /\ mat = NoCall

\* the cron callback / the GET /poll-now handler, up to the first await
StartCycle(c) ==
  /\ ~Busy
  /\ dbShape = "maps"
  /\ NotRunning(c)
  /\ events < MaxEvents
  /\ events' = events + 1
  /\ LET teams == Keys(subscriptions) IN
       IF teams = <<>>
         THEN /\ cyc' = [cyc EXCEPT ![c] = DoneCycle]
              /\ UNCHANGED seenMatches
         ELSE LET e == EnterTeam([IdleCycle EXCEPT !.teams = teams], 1,
                                 seenMatches)
              IN /\ cyc' = [cyc EXCEPT ![c] = e.cyc]
                 /\ seenMatches' = e.seen
  /\ UNCHANGED <<subscriptions, file, restarts, attempted, dup, failed,
                 committed, owed>>
  /\ UNCHANGED <<removed, dbShape, typeErrors, apiVars,
                 fnVars>>

\* await getMatchesForTeam(team) settles
FetchReturn(c) ==
  /\ ~Busy
  /\ cyc[c].pc = "fetch"
  /\ \E fetch \in FetchResults :
       cyc' = [cyc EXCEPT ![c] =
                 [cyc[c] EXCEPT
                    !.pc = "loop",
                    !.matches = getMatchesForTeam(CurTeam(cyc[c]), fetch),
                    !.mi = 1]]
  /\ UNCHANGED <<subscriptions, seenMatches, file, events, restarts,
                 attempted, dup, failed, committed, owed>>
  /\ UNCHANGED <<removed, dbShape, typeErrors, apiVars,
                 fnVars>>

\* history of the POSTs started
Attempt(t) ==
  /\ attempted' = attempted \cup {t}
  /\ dup' = IF t \in attempted THEN dup \cup {t} ELSE dup

\* one iteration of `for (const m of matches)` up to its first await, or the
\* end of the loop and with it the step to the next team
LoopStep(c) ==
  LET r == cyc[c]
      key == CurKey(r)
  IN
  /\ r.pc = "loop"
  /\ IF r.mi > Len(r.matches)
       THEN \* the loop is over: notifyNewMatchesForTeam returns
            LET n == NextTeam(r, seenMatches) IN
              /\ cyc' = [cyc EXCEPT ![c] = n.cyc]
              /\ seenMatches' = n.seen
              /\ UNCHANGED <<file, attempted, dup, committed, owed>>
       ELSE IF ~isNew(seenMatches, key, CurMatch(r).id)
         THEN \* already seen: skip the candidate
              /\ cyc' = [cyc EXCEPT ![c] = [r EXCEPT !.mi = r.mi + 1]]
              /\ UNCHANGED <<seenMatches, file, attempted, dup, committed,
                             owed>>
         ELSE LET id == CurMatch(r).id
                  seen1 == PushSeen(seenMatches, key, id)
                  subs == SubsFor(subscriptions, CurTeam(r))
              IN
              \/ \* saveDB returns
                 /\ file' = saveDB(subscriptions, seen1)
                 /\ seenMatches' = seen1
                 /\ committed' = committed \cup {<<key, id>>}
                 /\ owed' = owed \cup
                      {<<key, id, w>> :
                         w \in SubscribedUnderKey(subscriptions, key)}
                 /\ cyc' = [cyc EXCEPT ![c] =
                              [r EXCEPT !.pc = "deliver",
                                        !.subs = subs,
                                        !.live = HasTeam(subscriptions,
                                                         CurTeam(r)),
                                        !.wi = 0]]
                 /\ UNCHANGED <<attempted, dup>>
              \/ \* saveDB throws after the push
                 LET n == OnThrow(c, r, seen1) IN
                   /\ cyc' = [cyc EXCEPT ![c] = n.cyc]
                   /\ seenMatches' = n.seen
                   /\ UNCHANGED <<file, attempted, dup, committed, owed>>
  /\ UNCHANGED <<subscriptions, events, restarts, failed>>
  /\ UNCHANGED <<removed, dbShape, typeErrors, apiVars,
                 fnVars>>

\* one iteration of `for (const webhook of subs)` up to its await: the POST
\* to the next webhook is started; or the end of that loop
DeliverStep(c) ==
  LET r == cyc[c] IN
  /\ r.pc = "deliver"
  /\ IF r.wi < Len(r.subs)
       THEN LET n == [r EXCEPT !.pc = "post", !.wi = r.wi + 1] IN
              /\ cyc' = [cyc EXCEPT ![c] = n]
              /\ Attempt(Triple(n))
       ELSE /\ cyc' = [cyc EXCEPT ![c] =
                         [r EXCEPT !.pc = "loop", !.mi = r.mi + 1,
                                   !.subs = <<>>, !.live = FALSE, !.wi = 0]]
            /\ UNCHANGED <<attempted, dup>>
  /\ UNCHANGED <<subscriptions, seenMatches, file, events, restarts, failed,
                 committed, owed>>
  /\ UNCHANGED <<removed, dbShape, typeErrors, apiVars,
                 fnVars>>

\* await axios.post(webhook, ...) settles: resolved (ok) or rejected
PostReturn(c) ==
  /\ ~Busy
  /\ cyc[c].pc = "post"
  /\ \E ok \in BOOLEAN :
       /\ failed' = IF ok THEN failed ELSE failed \cup {Triple(cyc[c])}
       /\ cyc' = [cyc EXCEPT ![c] = AfterPost(cyc[c], ok)]
  /\ UNCHANGED <<subscriptions, seenMatches, file, events, restarts,
                 attempted, dup, committed, owed>>
  /\ UNCHANGED <<removed, dbShape, typeErrors, apiVars,
                 fnVars>>

\* POST /subscribe on db.subscriptions
SubscribeDb(subs, team, webhook) ==
  IF ~HasTeam(subs, team)
    THEN Append(subs, [team |-> team, hooks |-> <<webhook>>])
    ELSE IF Includes(SubsFor(subs, team), webhook)
      THEN subs
      ELSE [subs EXCEPT ![IndexOfTeam(subs, team)].hooks = Append(@, webhook)]

\* (mutant) a filter that keeps every webhook
UnsubscribeDbKeep(subs, team, webhook) ==
  IF ~HasTeam(subs, team)
    THEN Append(subs, [team |-> team, hooks |-> <<>>])
    ELSE subs

\* POST /unsubscribe on db.subscriptions
UnsubscribeDb(subs, team, webhook) ==
  LET Other(w) == w # webhook IN
    IF ~HasTeam(subs, team)
      THEN Append(subs, [team |-> team, hooks |-> <<>>])
      ELSE [subs EXCEPT ![IndexOfTeam(subs, team)].hooks = SelectSeq(@, Other)]

\* a cycle iterating over the very array that subscribe pushes to sees the
\* pushed webhook
SeesPush(r, team, webhook) ==
  /\ r.pc = "post"
  /\ r.live
  /\ CurTeam(r) = team
  /\ ~Includes(r.subs, webhook)

Subscribe(team, webhook) ==
  /\ ~Busy
  /\ dbShape = "maps"
  /\ events < MaxEvents
  /\ team # <<>> /\ webhook # ""
  /\ events' = events + 1
  /\ subscriptions' = SubscribeDb(subscriptions, team, webhook)
  /\ cyc' = [c \in Cycles |->
               IF SeesPush(cyc[c], team, webhook)
                 THEN [cyc[c] EXCEPT !.subs = Append(@, webhook)]
                 ELSE cyc[c]]
  /\ \/ file' = saveDB(subscriptions', seenMatches)
     \/ UNCHANGED file   \* saveDB throws
  /\ removed' = removed \ {<<team, webhook>>}
  /\ UNCHANGED <<seenMatches, restarts, attempted, dup, failed,
                 committed, owed>>
  /\ UNCHANGED <<dbShape, typeErrors, apiVars,
                 fnVars>>

Unsubscribe(team, webhook) ==
  /\ ~Busy
  /\ dbShape = "maps"
  /\ events < MaxEvents
  /\ team # <<>> /\ webhook # ""
  /\ events' = events + 1
  /\ subscriptions' = UnsubscribeDb(subscriptions, team, webhook)
  \* the filter makes a new array: a cycle in its delivery loop keeps the old
  /\ cyc' = [c \in Cycles |->
               IF cyc[c].pc = "post" /\ CurTeam(cyc[c]) = team
                 THEN [cyc[c] EXCEPT !.live = FALSE]
                 ELSE cyc[c]]
  /\ \/ /\ file' = saveDB(subscriptions', seenMatches)
        /\ removed' = IF Includes(SubsFor(subscriptions, team), webhook)
                         THEN removed \cup {<<team, webhook>>}
                         ELSE removed
     \/ UNCHANGED <<file, removed>>   \* saveDB throws
  /\ UNCHANGED <<seenMatches, restarts, attempted, dup, failed,
                 committed, owed>>
  /\ UNCHANGED <<dbShape, typeErrors, apiVars,
                 fnVars>>

\* the process ends and starts again: db is loaded from the file, the
\* in-flight cycles are gone
Restart ==
  /\ ~Busy
  /\ events < MaxEvents
  /\ restarts < MaxRestarts
  /\ events' = events + 1
  /\ restarts' = restarts + 1
  /\ dbShape' = LoadShape(file)
  /\ subscriptions' = LoadDB(file).subscriptions
  /\ seenMatches' = LoadDB(file).seenMatches
  /\ cyc' = [c \in Cycles |-> IdleCycle]
  /\ UNCHANGED <<file, attempted, dup, failed, committed, owed>>
  /\ UNCHANGED <<removed, typeErrors, apiVars, fnVars>>

Next ==
  \/ \E c \in Cycles : StartCycle(c)
  \/ \E c \in Cycles : FetchReturn(c)
  \/ \E c \in Cycles : LoopStep(c)
  \/ \E c \in Cycles : DeliverStep(c)
  \/ \E c \in Cycles : PostReturn(c)
  \/ \E t \in TeamNames, w \in Webhooks : Subscribe(t, w)
  \/ \E t \in TeamNames, w \in Webhooks : Unsubscribe(t, w)
  \/ Restart

Spec == Init /\ [][Next]_vars

----------------------------------------------------------------------------
(* A start on a file left by an earlier run or damaged since. *)

\* a file written by an earlier run: one team with two webhooks
SavedFile ==
  saveDB(<<[team |-> FURIA, hooks |-> <<"w1", "w2">>]>>, <<>>)

BootFiles == {UnparseableFile, NoMapsFile, SavedFile}

InitBoot ==
  /\ \E f \in BootFiles : InitStore(f)
  /\ InitCycles
  /\ InitApi
  /\ ext = NoCall
  /\ mat = NoCall

\* the cron callback / GET /poll-now on a db without maps:
\* Object.keys(db.subscriptions) throws a TypeError at the handler's first
\* line, outside every try
StartCycleNoMaps(c) ==
  /\ ~Busy
  /\ dbShape = "noMaps"
  /\ NotRunning(c)
  /\ events < MaxEvents
  /\ events' = events + 1
  /\ cyc' = [cyc EXCEPT ![c] = FailedCycle]
  /\ typeErrors' = typeErrors \cup {<<c, <<>>, "">>}
  /\ UNCHANGED <<subscriptions, seenMatches, file, restarts, attempted, dup,
                 failed, committed, owed, removed, dbShape>>
  /\ UNCHANGED <<apiVars, fnVars>>

\* POST /subscribe on a db without maps: db.subscriptions[team] throws
SubscribeNoMaps(team, webhook) ==
  /\ ~Busy
  /\ dbShape = "noMaps"
  /\ events < MaxEvents
  /\ team # <<>> /\ webhook # ""
  /\ events' = events + 1
  /\ typeErrors' = typeErrors \cup {<<"subscribe", team, webhook>>}
  /\ UNCHANGED <<subscriptions, seenMatches, file, cyc, restarts, attempted,
                 dup, failed, committed, owed, removed, dbShape>>
  /\ UNCHANGED <<apiVars, fnVars>>

\* POST /unsubscribe on a db without maps: db.subscriptions[team] throws
UnsubscribeNoMaps(team, webhook) ==
  /\ ~Busy
  /\ dbShape = "noMaps"
  /\ events < MaxEvents
  /\ team # <<>> /\ webhook # ""
  /\ events' = events + 1
  /\ typeErrors' = typeErrors \cup {<<"unsubscribe", team, webhook>>}
  /\ UNCHANGED <<subscriptions, seenMatches, file, cyc, restarts, attempted,
                 dup, failed, committed, owed, removed, dbShape>>
  /\ UNCHANGED <<apiVars, fnVars>>

NextBoot ==
  \/ Next
  \/ \E c \in Cycles : StartCycleNoMaps(c)
  \/ \E t \in TeamNames, w \in Webhooks : SubscribeNoMaps(t, w)
  \/ \E t \in TeamNames, w \in Webhooks : UnsubscribeNoMaps(t, w)

SpecBoot == InitBoot /\ [][NextBoot]_vars

----------------------------------------------------------------------------
(* Properties of src/index.js. *)

Range(s) == {s[i] : i \in 1..Len(s)}

InSeen(seen, key, id) == key \in DOMAIN seen /\ Includes(seen[key], id)

IsPrefix(s, t) == Len(s) <= Len(t) /\ SubSeq(t, 1, Len(s)) = s

InFlight(c) == cyc[c].pc \in {"fetch", "loop", "deliver", "post"}

\* cycle c is inside the per-candidate steps of candidate id of team key
OnCandidate(c, key, id) ==
  /\ cyc[c].pc \in {"deliver", "post"}
  /\ CurKey(cyc[c]) = key
  /\ CurMatch(cyc[c]).id = id

\* C1: over any number of poll cycles, cron and manual, overlapping at their
\* awaits or not, no webhook gets more than one delivery attempt for the
\* same (team key, match id).
C1_NoDuplicateDelivery == dup = {}

\* C1 witness: a second cycle examines, for the same team key, the candidate
\* whose delivery the first cycle is awaiting.
C1_Witness ==
  \E c1 \in Cycles, c2 \in Cycles :
    /\ c1 # c2
    /\ cyc[c1].pc = "post"
    /\ cyc[c2].pc = "loop"
    /\ cyc[c2].mi <= Len(cyc[c2].matches)
    /\ CurKey(cyc[c2]) = CurKey(cyc[c1])
    /\ CurMatch(cyc[c2]).id = CurMatch(cyc[c1]).id

\* C2 (as claimed): once a cycle has committed a new candidate for a team key
\* and is through with that candidate, every webhook that was subscribed at
\* the commit under any team name of that key has had its delivery attempt
\* (in a process that was not restarted meanwhile).
C2_Original ==
  restarts = 0 =>
    \A t \in owed :
      \/ t \in attempted
      \/ \E c \in Cycles : OnCandidate(c, t[1], t[2])

\* C3 (as claimed): notify, then commit: no id is in a seen set while none of
\* its deliveries has been attempted.
C3_Original ==
  \A key \in DOMAIN seenMatches :
    \A id \in Range(seenMatches[key]) :
      \E w \in Webhooks : <<key, id, w>> \in attempted

\* C3 (amended): commit, then notify: every delivery attempt for a candidate
\* is made when its id is already in the seen set of the team key and in the
\* saved file.
C3_CommitBeforeNotify ==
  \A t \in attempted :
    /\ InSeen(seenMatches, t[1], t[2])
    /\ file.exists
    /\ InSeen(file.seenMatches, t[1], t[2])

\* C3 witness: a delivery is awaited for an id that is in the seen set and
\* in the file.
C3_Witness ==
  \E c \in Cycles :
    /\ cyc[c].pc = "post"
    /\ Triple(cyc[c]) \in attempted
    /\ InSeen(file.seenMatches, CurKey(cyc[c]), CurMatch(cyc[c]).id)

\* in the delivery loop of a candidate, every webhook up to the current one
\* has had its attempt
C4_Delivered(c) ==
  cyc[c].pc \in {"deliver", "post"} =>
    \A i \in 1..cyc[c].wi :
      <<CurKey(cyc[c]), CurMatch(cyc[c]).id, cyc[c].subs[i]>> \in attempted

\* a step in which the awaited POST of cycle c is rejected leaves the cycle
\* in its delivery loop, and the id in the seen set
C4_Rejected(c) ==
  (cyc[c].pc = "post" /\ Triple(cyc[c]) \in failed' /\
   Triple(cyc[c]) \notin failed)
    => /\ cyc'[c] = [cyc[c] EXCEPT !.pc = "deliver"]
       /\ InSeen(seenMatches', CurKey(cyc[c]), CurMatch(cyc[c]).id)

\* a cycle leaves the delivery loop of a candidate only after the last
\* webhook, and then for the next candidate
C4_LeavesAtEnd(c) ==
  (cyc[c].pc \in {"deliver", "post"} /\ cyc'[c].pc \notin {"deliver", "post"}
   /\ restarts' = restarts)
    => /\ cyc[c].wi = Len(cyc[c].subs)
       /\ cyc'[c].pc = "loop"
       /\ cyc'[c].mi = cyc[c].mi + 1
       /\ cyc'[c].matches = cyc[c].matches

\* C4: a rejected POST never aborts the cycle: every webhook of the team's
\* list still gets its delivery attempt for that candidate, the later
\* candidates of the cycle are still processed, and the id stays in the seen
\* set, also when every delivery for it failed.
C4_FailedDeliveryIsolated ==
  /\ [](\A c \in Cycles : C4_Delivered(c))
  /\ [][\A c \in Cycles : C4_Rejected(c) /\ C4_LeavesAtEnd(c)]_vars

\* C4 witness: the POST to the first webhook was rejected and the POST to the
\* second webhook of the same candidate is under way.
C4_Witness ==
  \E c \in Cycles :
    /\ cyc[c].pc = "post"
    /\ cyc[c].wi = 2
    /\ <<CurKey(cyc[c]), CurMatch(cyc[c]).id, cyc[c].subs[1]>> \in failed

\* C5 (as claimed): whatever fails while a team is processed, a cycle ends
\* only after the last team of its list.
C5_Original ==
  [][\A c \in Cycles :
       (InFlight(c) /\ cyc'[c].pc \notin {"fetch", "loop", "deliver", "post"}
        /\ restarts' = restarts)
         => cyc[c].ti = Len(cyc[c].teams)]_vars

\* C6: within a process, every seen set only grows at its end, whatever
\* subscribe, unsubscribe and poll steps are taken.
C6_AppendOnly ==
  [][restarts' = restarts =>
       \A key \in DOMAIN seenMatches :
         /\ key \in DOMAIN seenMatches'
         /\ IsPrefix(seenMatches[key], seenMatches'[key])]_vars

\* C6 witness: an id was delivered, its team has no webhook left and the id
\* is still in the seen set.
C6_Witness ==
  \E t \in attempted :
    /\ InSeen(seenMatches, t[1], t[2])
    /\ SubscribedUnderKey(subscriptions, t[1]) = {}

\* C7: an id that was committed (pushed, and saveDB returned) is answered
\* "seen" ever after, in the same process and after a restart.
C7_CommittedStaysSeen ==
  \A p \in committed :
    /\ p[1] \in DOMAIN seenMatches
    /\ ~isNew(seenMatches, p[1], p[2])

\* C7 witness: the process was restarted after a commit.
C7_Witness == restarts > 0 /\ committed # {}

\* C8 (as claimed): an id is added to the seen set of a team key only while
\* some webhook is subscribed to that team.
C8_Original ==
  [][restarts' = restarts =>
       \A key \in DOMAIN seenMatches' :
         \A id \in Range(seenMatches'[key]) :
           ~InSeen(seenMatches, key, id)
             => SubscribedUnderKey(subscriptions, key) # {}]_vars

\* C9 (as claimed): unsubscribing a pair that is not stored leaves
\* db.subscriptions, and with it the list of teams to poll, as it was.
C9_Original ==
  [][\A t \in TeamNames, w \in Webhooks :
       (~Includes(SubsFor(subscriptions, t), w) /\ Unsubscribe(t, w))
         => /\ subscriptions' = subscriptions
            /\ Keys(subscriptions') = Keys(subscriptions)]_vars


\* the step leaves the POSTs started, the file and the members of every
\* seen set as they were (a seen set may be created empty)
C11_NoEffect ==
  /\ attempted' = attempted
  /\ file' = file
  /\ \A key \in DOMAIN seenMatches :
       key \in DOMAIN seenMatches' /\ seenMatches'[key] = seenMatches[key]
  /\ \A key \in DOMAIN seenMatches' :
       key \notin DOMAIN seenMatches => seenMatches'[key] = <<>>

\* cycle c is at a candidate whose id is in the seen set: it steps over it
C11_SkipsSeen(c) ==
  (/\ cyc[c].pc = "loop"
   /\ cyc[c].mi <= Len(cyc[c].matches)
   /\ InSeen(seenMatches, CurKey(cyc[c]), CurMatch(cyc[c]).id))
    => /\ C11_NoEffect
       /\ cyc'[c] = [cyc[c] EXCEPT !.mi = cyc[c].mi + 1]

\* the steps of cycle c that are not about a candidate: its start, the
\* return of a fetch, the end of a team's loop
C11_Between(c) ==
  (/\ restarts' = restarts
   /\ \/ NotRunning(c) /\ cyc'[c] # cyc[c]
      \/ cyc[c].pc = "fetch" /\ cyc'[c] # cyc[c]
      \/ cyc[c].pc = "loop" /\ cyc[c].mi > Len(cyc[c].matches))
    => C11_NoEffect

\* every candidate a cycle is through with is in the seen set of its team
C11_PassedAreSeen(c) ==
  cyc[c].pc \in {"loop", "deliver", "post"} =>
    \A j \in 1..Len(cyc[c].matches) :
      (j < cyc[c].mi \/ (j = cyc[c].mi /\ cyc[c].pc # "loop"))
        => InSeen(seenMatches, CurKey(cyc[c]), cyc[c].matches[j].id)

\* C11: a cycle whose matching candidates are all in the seen set starts no
\* POST and leaves the members of every seen set and the file as they were:
\* only a step on a new candidate has an effect; and since a cycle leaves
\* every candidate it went through seen, a cycle right after it over the
\* same content starts no POST.
C11_SeenCycleHasNoEffect ==
  /\ [](\A c \in Cycles : C11_PassedAreSeen(c))
  /\ [][\A c \in Cycles : C11_SkipsSeen(c) /\ C11_Between(c)]_vars

\* C11 witness: the cron cycle is over, its delivery was made, and the
\* manual cycle has stepped over that candidate and is at the next one, seen
\* and delivered too.
C11_Witness ==
  /\ cyc["cron"].pc = "done"
  /\ cyc["manual"].pc = "loop"
  /\ cyc["manual"].mi = 2
  /\ Len(cyc["manual"].matches) = 2
  /\ \A j \in 1..2 :
       /\ InSeen(seenMatches, CurKey(cyc["manual"]),
                 cyc["manual"].matches[j].id)
       /\ \E w \in Webhooks :
            <<CurKey(cyc["manual"]), cyc["manual"].matches[j].id, w>>
              \in attempted

\* C13 (as claimed): no two cycles are inside notifyNewMatchesForTeam for
\* the same team key at the same time.
C13_Original ==
  \A c1 \in Cycles, c2 \in Cycles :
    (c1 # c2 /\ InFlight(c1) /\ InFlight(c2))
      => CurKey(cyc[c1]) # CurKey(cyc[c2])

\* C15 (as claimed): a GET /poll-now that is under way ends with its
\* response, never with a rejection, also when saveDB throws.
C15_Original ==
  [][(InFlight("manual") /\ restarts' = restarts)
       => cyc'["manual"].pc # "failed"]_vars

\* C18: every seen set holds every match id at most once, also when two
\* cycles overlap on a team.
C18_NoDuplicateIds ==
  \A key \in DOMAIN seenMatches :
    \A i \in 1..Len(seenMatches[key]), j \in 1..Len(seenMatches[key]) :
      seenMatches[key][i] = seenMatches[key][j] => i = j

\* C18 witness: one cycle awaits the delivery of a candidate that the other
\* cycle, on the same team key, has already stepped over.
C18_Witness ==
  \E c1 \in Cycles, c2 \in Cycles :
    /\ c1 # c2
    /\ cyc[c1].pc = "post"
    /\ cyc[c2].pc = "loop"
    /\ cyc[c2].mi >= 2
    /\ CurKey(cyc[c2]) = CurKey(cyc[c1])
    /\ cyc[c2].matches[cyc[c2].mi - 1].id = CurMatch(cyc[c1]).id
    /\ Len(seenMatches[CurKey(cyc[c1])]) = 1


\* cycle c starts the POST to webhook w
PostsTo(c, w) ==
  /\ cyc[c].pc = "deliver"
  /\ cyc'[c].pc = "post"
  /\ cyc[c].subs[cyc[c].wi + 1] = w

\* C12: a cycle that took the team's webhooks (line 100) after an
\* unsubscribe was answered starts no POST to the removed webhook for that
\* team, and a new candidate it finds for a team with a removed webhook is
\* in the team's seen set after its step.
C12_NoAttemptToRemoved ==
  [][\A c \in Cycles :
       /\ \A w \in Webhooks :
            (PostsTo(c, w) /\ cyc[c].live)
              => <<CurTeam(cyc[c]), w>> \notin removed
       /\ (/\ cyc[c].pc = "loop"
           /\ cyc[c].mi <= Len(cyc[c].matches)
           /\ cyc'[c] # cyc[c]
           /\ restarts' = restarts
           /\ \E w \in Webhooks : <<CurTeam(cyc[c]), w>> \in removed)
            => InSeen(seenMatches', CurKey(cyc[c]), CurMatch(cyc[c]).id)]_vars

\* C12 witness: a cycle has just committed a candidate of a team one of
\* whose webhooks was removed before, and is about to deliver it.
C12_Witness ==
  \E c \in Cycles, w \in Webhooks :
    /\ cyc[c].pc = "deliver"
    /\ cyc[c].live
    /\ cyc[c].wi = 0
    /\ <<CurTeam(cyc[c]), w>> \in removed
    /\ ~Includes(cyc[c].subs, w)
    /\ InSeen(seenMatches, CurKey(cyc[c]), CurMatch(cyc[c]).id)
    /\ <<CurKey(cyc[c]), CurMatch(cyc[c]).id>> \in committed

\* C14 (as claimed): on a file that does not parse to a db, the start
\* leaves db with its two maps, empty, and no handler fails.
C14_Original ==
  (file.exists /\ file.kind # "db")
    => /\ dbShape = "maps"
       /\ subscriptions = <<>>
       /\ seenMatches = <<>>
       /\ typeErrors = {}

\* C19 (as claimed): no cycle starts a POST to a webhook whose unsubscribe
\* for the cycle's team has been answered.
C19_Original ==
  [][\A c \in Cycles, w \in Webhooks :
       PostsTo(c, w) => <<CurTeam(cyc[c]), w>> \notin removed]_vars

----------------------------------------------------------------------------
(* extractMatchesFromHtml and the filter of getMatchesForTeam as functions *)
(* of their inputs.                                                        *)

Team == <<"T", "e", "a", "m">>

ExtWords == {Team, <<"A">>, <<"B">>}

RECURSIVE Join(_)
Join(ws) ==
  IF Len(ws) = 1 THEN ws[1] ELSE ws[1] \o <<" ">> \o Join(Tail(ws))

\* the names of one to MaxWords words
Names ==
  {Join(ws) : ws \in UNION {[1..n -> ExtWords] : n \in 1..MaxWords}}

\* what stands between the two names in the text of a link
Between ==
  {<<" ", "v", "s", " ">>, <<" ", "V", "S", " ">>, <<" ", "v", ".", " ">>,
   <<" ", "-", " ">>, <<"\n", " ", "v", "s", "\t">>, <<" ">>}

ExtInputs ==
  {[stage |-> "input", a |-> a, sep |-> sep, b |-> b] :
     a \in Names, sep \in Between, b \in Names}

InitExtract ==
  /\ InitStore(NoFile)
  /\ InitCycles
  /\ InitApi
  /\ ext \in ExtInputs
  /\ mat = NoCall

\* extractMatchesFromHtml meets a link whose context text is a, sep, b
Extract ==
  /\ ext.stage = "input"
  /\ LET r == extractMatchesFromHtml(<<" ">> \o ext.a \o ext.sep \o ext.b)
     IN ext' = [stage |-> "done", a |-> ext.a, sep |-> ext.sep, b |-> ext.b,
                team1 |-> r.team1, team2 |-> r.team2]
  /\ UNCHANGED <<indexVars, apiVars, mat>>

SpecExtract == InitExtract /\ [][Extract]_vars

\* C16 (as claimed): for a context '<A> vs <B>' or '<A> - <B>' with names A
\* and B of one or more words, team1 is all of A and team2 is all of B.
C16_Original ==
  (/\ ext.stage = "done"
   /\ ext.sep \in {<<" ", "v", "s", " ">>, <<" ", "-", " ">>})
    => ext.team1 = ext.a /\ ext.team2 = ext.b

\* candidates' team fields and watched names, with empty ones and names
\* that normalize to the empty string
MatFields ==
  {<<>>, <<"F", "U">>, <<"f", "u">>, <<"F", "U", " ", "X">>, <<"N", "A">>}

MatTeams ==
  {<<"F", "U">>, <<" ", "f", "u", " ">>, <<"u">>, <<"x", "y">>, <<" ">>}

MatInputs ==
  {[stage |-> "input", team1 |-> t1, team2 |-> t2, team |-> t] :
     t1 \in MatFields, t2 \in MatFields, t \in MatTeams}

InitMatch ==
  /\ InitStore(NoFile)
  /\ InitCycles
  /\ InitApi
  /\ ext = NoCall
  /\ mat \in MatInputs

\* the filter of getMatchesForTeam meets a candidate
Filter ==
  /\ mat.stage = "input"
  /\ mat' = [stage |-> "done", team1 |-> mat.team1, team2 |-> mat.team2,
             team |-> mat.team,
             kept |-> Matches([team1 |-> mat.team1, team2 |-> mat.team2],
                              mat.team)]
  /\ UNCHANGED <<indexVars, apiVars, ext>>

SpecMatch == InitMatch /\ [][Filter]_vars

\* C17 (as claimed): a candidate is kept iff the normalized watched name is
\* a substring of its normalized team1 or team2, empty fields and names
\* that normalize to the empty string included.
C17_Original ==
  mat.stage = "done" =>
    (mat.kept <=>
       \/ StrIncludes(normalizeTeamName(mat.team1),
                      normalizeTeamName(mat.team))
       \/ StrIncludes(normalizeTeamName(mat.team2),
                      normalizeTeamName(mat.team)))

----------------------------------------------------------------------------
(* src/discord_esports_bot_api.js: the subscription list and its routes. *)

\* team names and webhook URLs a request may carry (the empty ones are
\* rejected with 400); some come with surrounding blanks
ApiTeamNames == {FURIA, <<"f", "u", " ">>, NAVI, <<>>}
ApiWebhooks == {<<"w">>, <<" ", "w">>, <<"v">>, <<>>}

\* POST /subscribe: the trimmed pair is pushed, whatever the list holds
ApiSubscribeDb(subs, team, webhook, now) ==
  Append(subs, [team |-> Trim(team), webhook |-> Trim(webhook),
                createdAt |-> now])

\* POST /unsubscribe: the entries of that team (names compared normalized)
\* with exactly that webhook are filtered out
ApiUnsubscribeDb(subs, team, webhook) ==
  LET Stays(e) ==
        ~(normalizeTeamName(e.team) = normalizeTeamName(team)
          /\ e.webhook = webhook)
  IN SelectSeq(subs, Stays)

ApiSubscribe(team, webhook) ==
  /\ apiReqs < MaxApiReqs
  /\ team # <<>> /\ webhook # <<>>
  /\ apiReqs' = apiReqs + 1
  /\ apiDb' = [apiDb EXCEPT !.subscriptions =
                 ApiSubscribeDb(@, team, webhook, apiReqs')]
  /\ \/ apiFile' = saveDB(apiDb'.subscriptions, apiDb'.seenMatches)
     \/ UNCHANGED apiFile   \* saveDB throws
  /\ UNCHANGED <<indexVars, fnVars>>

ApiUnsubscribe(team, webhook) ==
  /\ apiReqs < MaxApiReqs
  /\ team # <<>> /\ webhook # <<>>
  /\ apiReqs' = apiReqs + 1
  /\ apiDb' = [apiDb EXCEPT !.subscriptions =
                 ApiUnsubscribeDb(@, team, webhook)]
  /\ \/ apiFile' = saveDB(apiDb'.subscriptions, apiDb'.seenMatches)
     \/ UNCHANGED apiFile   \* saveDB throws
  /\ UNCHANGED <<indexVars, fnVars>>

ApiNext ==
  \/ \E t \in ApiTeamNames, w \in ApiWebhooks : ApiSubscribe(t, w)
  \/ \E t \in ApiTeamNames, w \in ApiWebhooks : ApiUnsubscribe(t, w)

SpecApi == Init /\ [][ApiNext]_vars

\* C10 (as claimed): the stored list never holds two entries with the same
\* (team, webhook) pair.
C10_Original ==
  \A i \in 1..Len(apiDb.subscriptions), j \in 1..Len(apiDb.subscriptions) :
    (apiDb.subscriptions[i].team = apiDb.subscriptions[j].team
     /\ apiDb.subscriptions[i].webhook = apiDb.subscriptions[j].webhook)
      => i = j

====
